---- MODULE Spec2Model ----
(***************************************************************************)
(* Model of spotify-stop-ai: the evidence aggregator (classifier.py), the  *)
(* persistence store operations it uses (database.py) and the playback     *)
(* monitor with its action engine (monitor.py).                            *)
(*                                                                         *)
(* Encodings: Python None is the string "None"; the tri-state              *)
(* is_artificial is one of "true", "false", "null"; timestamps are         *)
(* integers of a discrete clock; a confidence is an integer number of      *)
(* 1/ConfUnit units (ConfUnit = 30 makes k/1, k/2, k/3 and 0.8 exact).     *)
(***************************************************************************)
EXTENDS Integers, Sequences, FiniteSets, TLC

None == "None"

\* ---------------------------------------------------------------- bounds
MaxMinAgreement == 3
MaxTime == 2
MaxClassifierTime == 3
NumTracks == 1
NumArtists == 1
MaxStreak == 5

\* ------------------------------------------------------- program constants
ConfUnit == 30

ARTIFICIAL_LABELS ==
    {"vocaloid", "vtuber", "virtual_idol", "virtual", "fictional",
     "ai_generated", "virtual_band"}

\* The label enumeration of a SourceResult.
Labels == ARTIFICIAL_LABELS \cup {"human", "band", "unknown"}

\* self.classifiers is filled in this order (dicts keep insertion order).
AdapterOrder == <<"wikidata", "musicbrainz", "lastfm">>

SourceNames == {AdapterOrder[i] : i \in 1..Len(AdapterOrder)}

Classifiers(enabled) == SelectSeq(AdapterOrder, LAMBDA s : s \in enabled)

\* What one classifier.classify call can do: raise, return success=False,
\* or return success=True with a label.
AdapterOutcomes == {"raise", "fail"} \cup Labels

Min(a, b) == IF a <= b THEN a ELSE b

\* votes / len(self.classifiers) in ConfUnit units.
Ratio(votes, n) == (votes * ConfUnit) \div n

\* 0.8 and 1.0 in ConfUnit units.
BandCapFull == ConfUnit

BandCap == (8 * ConfUnit) \div 10
Full == ConfUnit

\* ---------------------------------------------------------------- fan-out
\* The value stored in source_results for one adapter call.
QueryResult(o) ==
    IF o = "raise" THEN [success |-> FALSE, result |-> None, error |-> "exception"]
    ELSE IF o = "fail" THEN [success |-> FALSE, result |-> None, error |-> "adapter"]
    ELSE [success |-> TRUE, result |-> o, error |-> None]

\* The loop over self.classifiers.items(): every iteration awaits the
\* adapter and catches its exception.
RECURSIVE QueryLoop(_, _, _)
QueryLoopAbortOnRaise(cls, outcome, acc) ==
    IF cls = <<>> \/ outcome[Head(cls)] = "raise" THEN acc
    ELSE QueryLoop(Tail(cls), outcome,
            [results |-> acc.results @@ (Head(cls) :> QueryResult(outcome[Head(cls)])),
             calls |-> Append(acc.calls, Head(cls))])

QueryLoop(cls, outcome, acc) ==
    IF cls = <<>> THEN acc
    ELSE QueryLoop(Tail(cls), outcome,
            [results |-> acc.results @@ (Head(cls) :> QueryResult(outcome[Head(cls)])),
             calls |-> Append(acc.calls, Head(cls))])

NoResults == [results |-> <<>>, calls |-> <<>>]

\* The order in which the loop starts the adapter calls and gets their
\* results: result = await classifier.classify(...) inside the for loop, so an
\* iteration starts its call and waits for it before the next one begins.
RECURSIVE AdapterEvents(_)
AdapterEvents(calls) ==
    IF calls = <<>> THEN <<>>
    ELSE <<[event |-> "started", source |-> Head(calls)],
           [event |-> "finished", source |-> Head(calls)]>>
         \o AdapterEvents(Tail(calls))

\* ------------------------------------------------------------------ tally
NoVotes ==
    [artificial_votes |-> 0, human_votes |-> 0, successful_sources |-> 0,
     labels_found |-> <<>>]

\* One iteration of the vote-counting loop.
TallyOneBandNeither(acc, result) ==
    IF ~result.success THEN acc
    ELSE IF result.result \in ARTIFICIAL_LABELS
         THEN [acc EXCEPT !.successful_sources = @ + 1,
                          !.artificial_votes = @ + 1,
                          !.labels_found = Append(@, result.result)]
    ELSE IF result.result = "human"
         THEN [acc EXCEPT !.successful_sources = @ + 1,
                          !.human_votes = @ + 1]
    ELSE [acc EXCEPT !.successful_sources = @ + 1]

TallyOne(acc, result) ==
    IF ~result.success THEN acc
    ELSE IF result.result \in ARTIFICIAL_LABELS
         THEN [acc EXCEPT !.successful_sources = @ + 1,
                          !.artificial_votes = @ + 1,
                          !.labels_found = Append(@, result.result)]
    ELSE IF result.result = "human" \/ result.result = "band"
         THEN [acc EXCEPT !.successful_sources = @ + 1,
                          !.human_votes = @ + 1]
    ELSE [acc EXCEPT !.successful_sources = @ + 1]

RECURSIVE Tally(_, _, _)
Tally(order, results, acc) ==
    IF order = <<>> THEN acc
    ELSE Tally(Tail(order), results, TallyOne(acc, results[Head(order)]))

\* ----------------------------------------------------------------- policy
\* elif band_policy and artificial_votes > 0 and human_votes == 0
BandPolicyAppliesDespiteHuman(v, band_policy) ==
    band_policy /\ v.artificial_votes > 0

BandPolicyApplies(v, band_policy) ==
    band_policy /\ v.artificial_votes > 0 /\ v.human_votes = 0

\* The else branch: is_artificial = None, confidence = 0.0, label "unknown".
InconclusiveAsHuman ==
    [is_artificial |-> "false", confidence |-> 0, label |-> "human",
     band_policy_applied |-> FALSE]

Inconclusive ==
    [is_artificial |-> "null", confidence |-> 0, label |-> "unknown",
     band_policy_applied |-> FALSE]

DividesByCountAlways(v, min_source_agreement, band_policy) == TRUE

\* The branches of the if/elif chain of _aggregate_sources that evaluate
\* votes / len(self.classifiers).
DividesByCount(v, min_source_agreement, band_policy) ==
    \/ v.artificial_votes >= min_source_agreement
    \/ BandPolicyApplies(v, band_policy)
    \/ v.human_votes >= min_source_agreement

\* The if/elif chain of _aggregate_sources; n is len(self.classifiers).
Policy(v, n, min_source_agreement, band_policy) ==
    IF v.artificial_votes >= min_source_agreement
    THEN [is_artificial |-> "true",
          confidence |-> Min(Full, Ratio(v.artificial_votes, n)),
          label |-> IF v.labels_found # <<>> THEN v.labels_found[1] ELSE "artificial",
          band_policy_applied |-> FALSE]
    ELSE IF BandPolicyApplies(v, band_policy)
    THEN [is_artificial |-> "true",
          confidence |-> Min(BandCap, Ratio(v.artificial_votes, n)),
          label |-> IF v.labels_found # <<>> THEN v.labels_found[1] ELSE "artificial",
          band_policy_applied |-> TRUE]
    ELSE IF v.human_votes >= min_source_agreement
    THEN [is_artificial |-> "false",
          confidence |-> Min(Full, Ratio(v.human_votes, n)),
          label |-> "human",
          band_policy_applied |-> FALSE]
    ELSE Inconclusive

\* The decision_reason string, kept as the tuple of the values it prints.
Reason(v, p, min_source_agreement) ==
    IF p.is_artificial = "true"
    THEN <<"artificial", v.artificial_votes, v.successful_sources,
           {v.labels_found[i] : i \in 1..Len(v.labels_found)},
           p.band_policy_applied, min_source_agreement>>
    ELSE IF p.is_artificial = "false"
    THEN <<"human", v.human_votes, v.successful_sources, min_source_agreement>>
    ELSE <<"inconclusive", v.artificial_votes, v.human_votes,
           v.successful_sources, min_source_agreement>>

\* artificial_votes if is_artificial else human_votes
SourcesAgreeingLargerCount(is_artificial, v) ==
    IF v.artificial_votes >= v.human_votes THEN v.artificial_votes ELSE v.human_votes

SourcesAgreeing(is_artificial, v) ==
    IF is_artificial = "true" THEN v.artificial_votes ELSE v.human_votes

\* _aggregate_sources: order is the iteration order of source_results, t the
\* value of datetime.utcnow().
AggregateSources(cfg, artist_id, artist_name, order, source_results, t) ==
    LET v == Tally(order, source_results, NoVotes)
        p == Policy(v, Len(Classifiers(cfg.enabled)), cfg.min_source_agreement,
                    cfg.band_policy)
    IN [decision_id |-> <<"decision", artist_id, t>>,
        artist_id |-> artist_id,
        artist_name |-> artist_name,
        label |-> p.label,
        is_artificial |-> p.is_artificial,
        confidence |-> p.confidence,
        sources_agreeing |-> SourcesAgreeing(p.is_artificial, v),
        min_required |-> cfg.min_source_agreement,
        band_policy_applied |-> p.band_policy_applied,
        llm_used |-> FALSE,
        decision_reason |-> Reason(v, p, cfg.min_source_agreement),
        sources |-> source_results,
        llm_fallback |-> None,
        cached_until |-> t + cfg.cache_duration]

\* ZeroDivisionError in _aggregate_sources: a dividing branch is taken with
\* no classifier configured.
AggregateRaises(cfg, order, source_results) ==
    /\ Len(Classifiers(cfg.enabled)) = 0
    /\ DividesByCount(Tally(order, source_results, NoVotes),
                      cfg.min_source_agreement, cfg.band_policy)

\* ------------------------------------------------------- persistence store
\* SQLite column encodings: int(bool), NULL for None.
DbNull == -1
DbBool(b) == IF b THEN 1 ELSE 0
FromDbBool(i) == i # 0
DbTri(x) == IF x = "null" THEN DbNull ELSE IF x = "true" THEN 1 ELSE 0
FromDbTri(i) == IF i = DbNull THEN "null" ELSE IF i # 0 THEN "true" ELSE "false"

\* cached_until = None of an override-derived decision, and the
\* '2000-01-01T00:00:00' that invalidate_cache writes (the clock starts at 1).
NoTime == -1
Past == 0

\* get_override: SELECT * FROM overrides WHERE artist_id = ? (the rows found).
GetOverride(overrides, artist_id) == {o \in overrides : o.artist_id = artist_id}

\* set_override: INSERT ... ON CONFLICT(artist_id) DO UPDATE (the timestamp
\* column, which nothing reads, is left out).
SetOverrideRowsInsertOnly(overrides, artist_id, is_artificial, reason) ==
    overrides \cup
        {[artist_id |-> artist_id, is_artificial |-> DbBool(is_artificial),
          reason |-> reason]}

SetOverrideRows(overrides, artist_id, is_artificial, reason) ==
    {o \in overrides : o.artist_id # artist_id} \cup
        {[artist_id |-> artist_id, is_artificial |-> DbBool(is_artificial),
          reason |-> reason]}

\* delete_override: DELETE FROM overrides WHERE artist_id = ?.
DeleteOverrideRows(overrides, artist_id) ==
    {o \in overrides : o.artist_id # artist_id}

\* get_cached_decision: WHERE artist_id = ? AND cached_until > now
\* ORDER BY timestamp DESC LIMIT 1 (the rows found: none or one).
GetCachedDecisionConclusiveOnly(decisions, artist_id, t) ==
    LET live == {d \in decisions : /\ d.artist_id = artist_id
                                   /\ d.cached_until > t
                                   /\ d.is_artificial # DbNull}
    IN {d \in live : \A e \in live : e.timestamp <= d.timestamp}

GetCachedDecisionIgnoringExpiry(decisions, artist_id, t) ==
    LET live == {d \in decisions : d.artist_id = artist_id}
    IN {d \in live : \A e \in live : e.timestamp <= d.timestamp}

GetCachedDecision(decisions, artist_id, t) ==
    LET live == {d \in decisions : d.artist_id = artist_id /\ d.cached_until > t}
    IN {d \in live : \A e \in live : e.timestamp <= d.timestamp}

InvalidateCacheRowsDeleting(decisions, artist_id) ==
    {d \in decisions : d.artist_id # artist_id}

\* invalidate_cache: UPDATE decisions SET cached_until = '2000-01-01T00:00:00'.
InvalidateCacheRows(decisions, artist_id) ==
    {IF d.artist_id = artist_id THEN [d EXCEPT !.cached_until = Past] ELSE d :
        d \in decisions}

\* insert_decision: the row written for a decision dict at time t.
DecisionRow(decision, t) ==
    [id |-> decision.decision_id,
     artist_id |-> decision.artist_id,
     timestamp |-> t,
     label |-> decision.label,
     is_artificial |-> DbTri(decision.is_artificial),
     confidence |-> decision.confidence,
     sources_agreeing |-> decision.sources_agreeing,
     min_required |-> decision.min_required,
     band_policy_applied |-> DbBool(decision.band_policy_applied),
     llm_used |-> DbBool(decision.llm_used),
     decision_reason |-> decision.decision_reason,
     cached_until |-> decision.cached_until]

\* insert_source_result: the row written for one entry of decision["sources"].
SourceRow(decision_id, source_name, result) ==
    [decision_id |-> decision_id, source_name |-> source_name,
     success |-> DbBool(result.success), result |-> result.result]

\* A store fault: the operation that raises, and for insert_source_result
\* the index of the call that raises.
NoFault == [op |-> "none", at |-> 0]
ClassifyFaults ==
    {NoFault} \cup
    {[op |-> o, at |-> 0] : o \in {"get_override", "get_cached_decision", "insert_decision"}} \cup
    {[op |-> "insert_source_result", at |-> k] : k \in 1..Len(AdapterOrder)}

StoreDecisionSuccessfulOnly(decisions, sources, decision, order, fault, t) ==
    IF fault.op = "insert_decision"
    THEN [decisions |-> decisions, sources |-> sources]
    ELSE LET n == IF fault.op = "insert_source_result" /\ fault.at <= Len(order)
                  THEN fault.at - 1 ELSE Len(order)
         IN [decisions |-> decisions \cup {DecisionRow(decision, t)},
             sources |-> sources \cup
                 {SourceRow(decision.decision_id, order[i], decision.sources[order[i]]) :
                     i \in {j \in 1..n : decision.sources[order[j]].success}}]

\* _store_decision: inserts the decision, then one source row per entry, and
\* swallows the first exception.
StoreDecision(decisions, sources, decision, order, fault, t) ==
    IF fault.op = "insert_decision"
    THEN [decisions |-> decisions, sources |-> sources]
    ELSE LET n == IF fault.op = "insert_source_result" /\ fault.at <= Len(order)
                  THEN fault.at - 1 ELSE Len(order)
         IN [decisions |-> decisions \cup {DecisionRow(decision, t)},
             sources |-> sources \cup
                 {SourceRow(decision.decision_id, order[i], decision.sources[order[i]]) :
                     i \in 1..n}]

\* Whether an insert of _store_decision fails under the fault.
StoreFails(order, fault) ==
    \/ fault.op = "insert_decision"
    \/ fault.op = "insert_source_result" /\ fault.at <= Len(order)

\* except Exception in _store_decision: the failure is logged, not raised.
StoreDecisionPropagates(order, fault) == StoreFails(order, fault)

StoreDecisionRaises(order, fault) == FALSE

\* -------------------------------------------------------------- classifier
\* The dict returned for an override.
OverrideDecision(cfg, artist_id, artist_name, override, t) ==
    [decision_id |-> <<"override", artist_id, t>>,
     artist_id |-> artist_id,
     artist_name |-> artist_name,
     label |-> "override",
     is_artificial |-> IF FromDbBool(override.is_artificial) THEN "true" ELSE "false",
     confidence |-> Full,
     sources_agreeing |-> 0,
     min_required |-> cfg.min_source_agreement,
     band_policy_applied |-> FALSE,
     llm_used |-> FALSE,
     decision_reason |-> <<"override", override.reason>>,
     sources |-> <<>>,
     llm_fallback |-> None,
     cached_until |-> NoTime]

\* _decision_from_db.
DecisionFromDbBoolOfNull(db_record) ==
    [decision_id |-> db_record.id,
     artist_id |-> db_record.artist_id,
     artist_name |-> "",
     label |-> db_record.label,
     is_artificial |-> IF db_record.is_artificial = 1 THEN "true" ELSE "false",
     confidence |-> db_record.confidence,
     sources_agreeing |-> db_record.sources_agreeing,
     min_required |-> db_record.min_required,
     band_policy_applied |-> FromDbBool(db_record.band_policy_applied),
     llm_used |-> FromDbBool(db_record.llm_used),
     decision_reason |-> db_record.decision_reason,
     sources |-> <<>>,
     llm_fallback |-> None,
     cached_until |-> db_record.cached_until]

DecisionFromDb(db_record) ==
    [decision_id |-> db_record.id,
     artist_id |-> db_record.artist_id,
     artist_name |-> "",
     label |-> db_record.label,
     is_artificial |-> FromDbTri(db_record.is_artificial),
     confidence |-> db_record.confidence,
     sources_agreeing |-> db_record.sources_agreeing,
     min_required |-> db_record.min_required,
     band_policy_applied |-> FromDbBool(db_record.band_policy_applied),
     llm_used |-> FromDbBool(db_record.llm_used),
     decision_reason |-> db_record.decision_reason,
     sources |-> <<>>,
     llm_fallback |-> None,
     cached_until |-> db_record.cached_until]

\* A placeholder where no decision was returned.
NullDecision ==
    [decision_id |-> <<"none", 0, 0>>, artist_id |-> 0, artist_name |-> "",
     label |-> "", is_artificial |-> "null", confidence |-> 0,
     sources_agreeing |-> 0, min_required |-> 0, band_policy_applied |-> FALSE,
     llm_used |-> FALSE, decision_reason |-> <<>>, sources |-> <<>>,
     llm_fallback |-> None, cached_until |-> NoTime]

\* The resolution order of classify_artist: override, then cache, then a
\* fresh evaluation.
ResolveCacheFirst(has_override, has_cached) ==
    IF has_cached THEN "cache" ELSE IF has_override THEN "override" ELSE "fresh"

ResolveIgnoringOverride(has_override, has_cached) ==
    IF has_cached THEN "cache" ELSE "fresh"

Resolve(has_override, has_cached) ==
    IF has_override THEN "override" ELSE IF has_cached THEN "cache" ELSE "fresh"

\* classify_artist on the store st = [cfg, now, overrides, decisions, sources]
\* with env = [fault, outcome]: what it returns (or that it raised), the adapter
\* calls it made, and the store and clock it leaves.  A fresh evaluation takes
\* one clock unit, so decision ids (which embed utcnow()) never repeat.
ClassifyArtist(st, artist_id, artist_name, env) ==
    LET override == GetOverride(st.overrides, artist_id)
        cached == GetCachedDecision(st.decisions, artist_id, st.now)
        path == Resolve(override # {}, cached # {})
        same == [raised |-> FALSE, path |-> path, decision |-> NullDecision,
                 calls |-> <<>>, decisions |-> st.decisions,
                 sources |-> st.sources, now |-> st.now]
    IN IF env.fault.op = "get_override"
       THEN [same EXCEPT !.raised = TRUE, !.path = "raised"]
       ELSE IF path = "override"
       THEN [same EXCEPT !.decision =
                OverrideDecision(st.cfg, artist_id, artist_name,
                                 CHOOSE o \in override : TRUE, st.now)]
       ELSE IF env.fault.op = "get_cached_decision"
       THEN [same EXCEPT !.raised = TRUE, !.path = "raised"]
       ELSE IF path = "cache"
       THEN [same EXCEPT !.decision = DecisionFromDb(CHOOSE d \in cached : TRUE)]
       ELSE LET order == Classifiers(st.cfg.enabled)
                q == QueryLoop(order, env.outcome, NoResults)
                t == st.now + 1
                decision == AggregateSources(st.cfg, artist_id, artist_name,
                                             q.calls, q.results, t)
                stored == StoreDecision(st.decisions, st.sources, decision,
                                        q.calls, env.fault, t)
            IN IF AggregateRaises(st.cfg, q.calls, q.results)
               THEN [same EXCEPT !.raised = TRUE, !.path = "raised",
                                 !.calls = q.calls, !.now = t]
               ELSE [raised |-> StoreDecisionRaises(q.calls, env.fault),
                     path |-> "fresh", decision |-> decision,
                     calls |-> q.calls, decisions |-> stored.decisions,
                     sources |-> stored.sources, now |-> t]

\* ------------------------------------------------------------------ inputs
\* Track 0 is a track whose artists list is empty; the others have one
\* primary performer each.
Tracks == 0..NumTracks
Artists == 1..NumArtists
ArtistOf(track) == IF track = 0 THEN 0 ELSE ((track - 1) % NumArtists) + 1
HasArtists(track) == track # 0
ArtistName(artist_id) == "artist-" \o ToString(artist_id)

\* The playback context of a snapshot: none, an album, or a playlist that is
\* the user's own, someone else's, or cannot be fetched.
Contexts == {"none", "album", "playlist_owned", "playlist_other", "playlist_unavailable"}

\* What get_current_playback hands to the monitor.
Playbacks ==
    {[kind |-> k, is_playing |-> FALSE, type |-> "none", track |-> 0, ctx |-> "none"] :
        k \in {"none", "rate_limited"}} \cup
    [kind : {"state"}, is_playing : BOOLEAN, type : {"track", "episode"},
     track : Tracks, ctx : Contexts]

\* The adapter answers tried where classify_artist runs beside other
\* operations; the aggregation run tries all of AdapterOutcomes.
SystemOutcomes == {"raise", "human", "vocaloid"}

\* The configurations tried with the monitor: one evidence source, with
\* every action switched on or off.
SystemConfigs ==
    {[enabled |-> {"wikidata"}, min_source_agreement |-> 1,
      band_policy |-> TRUE, cache_duration |-> 1, auto_skip |-> TRUE,
      remove_from_playlists |-> TRUE, blocked_playlist_name |-> "blocked",
      poll_interval_seconds |-> 2, rate_limit_backoff_multiplier |-> 2,
      max_backoff_seconds |-> 4],
     [enabled |-> {"lastfm"}, min_source_agreement |-> 1,
      band_policy |-> FALSE, cache_duration |-> 1, auto_skip |-> FALSE,
      remove_from_playlists |-> FALSE, blocked_playlist_name |-> "",
      poll_interval_seconds |-> 2, rate_limit_backoff_multiplier |-> 2,
      max_backoff_seconds |-> 4]}

\* poll_interval_seconds, rate_limit_backoff_multiplier and max_backoff_seconds
\* tried with the polling loop: the values of the specification's scenario, a
\* multiplier of 3, a poll interval above max_backoff, and a multiplier of 1.
BackoffSettings == {<<2, 2, 30>>, <<1, 3, 10>>, <<3, 2, 2>>, <<2, 1, 4>>}

BackoffConfigs ==
    {[c EXCEPT !.poll_interval_seconds = b[1],
               !.rate_limit_backoff_multiplier = b[2],
               !.max_backoff_seconds = b[3]] :
        c \in {d \in SystemConfigs : d.auto_skip}, b \in BackoffSettings}

\* A configuration of the aggregator, the monitor's settings at their defaults.
ClassifierConfig(enabled, min_source_agreement, band_policy) ==
    [enabled |-> enabled, min_source_agreement |-> min_source_agreement,
     band_policy |-> band_policy, cache_duration |-> 1, auto_skip |-> TRUE,
     remove_from_playlists |-> TRUE, blocked_playlist_name |-> "blocked",
     poll_interval_seconds |-> 2, rate_limit_backoff_multiplier |-> 2,
     max_backoff_seconds |-> 4]

\* The configurations tried with the classifier and the store alone.
ClassifierConfigs ==
    {ClassifierConfig({"wikidata", "lastfm"}, 2, TRUE),
     ClassifierConfig({"wikidata", "lastfm"}, 1, FALSE),
     ClassifierConfig({"wikidata"}, 2, TRUE)}

\* The configurations tried in the aggregation run: any sources enabled.
AggConfigs ==
    {ClassifierConfig(e, m, b) :
        e \in SUBSET SourceNames, m \in 1..MaxMinAgreement, b \in BOOLEAN}

\* ------------------------------------------------------------------- state
VARIABLES
    cfg,                \* the configuration dict
    horizon,            \* the clock value at which this run stops
    now,                \* datetime.utcnow()
    overrides,          \* table overrides
    decisions,          \* table decisions
    sources,            \* table sources
    plays,              \* table plays
    actions,            \* table actions
    mon,                \* the monitor loop: "idle", "running" or "stopped"
    current_backoff,
    last_track_id,
    processed_tracks,
    blocked_playlist_id,
    current_track,
    last_decision,
    cycle,              \* the poll cycle in flight: its position and locals
    ret,                \* the classify_artist call of the last step, and what it returned
    last_fresh,         \* per performer: the decision its latest fresh evaluation returned
    stats,              \* per track: what the monitor did for it so far
    engine,             \* the _take_action invocations
    commands,           \* the commands sent to the playback provider
    aggIn, aggPc,       \* the adapter answers and the position of the aggregation run
    tasks,              \* per caller: its classify_artist coroutine, when the
                        \* calls are followed await by await
    last_cycle,         \* the poll or cycle end of the last step: what the provider
                        \* answered, how the cycle ended and the sleep of start()
                        \* that followed
    streak              \* rate-limited cycles in a row up to now

storeVars == <<overrides, decisions, sources, plays, actions>>
monVars == <<mon, current_backoff, last_track_id, processed_tracks,
             blocked_playlist_id, current_track, last_decision, cycle>>
obsVars == <<ret, last_fresh, stats, engine, commands>>
logVars == <<last_fresh, stats, engine, commands>>
aggVars == <<aggIn, aggPc, tasks>>
pollVars == <<last_cycle, streak>>
vars == <<cfg, horizon, now, storeVars, monVars, obsVars, aggVars, pollVars>>

NoTrack == -1

\* self.current_track (its timestamp left out); None before the first track.
NoCurrent == [track_id |-> NoTrack, artist_id |-> 0, artist_name |-> ""]
CurrentTrack(track) ==
    [track_id |-> track, artist_id |-> ArtistOf(track),
     artist_name |-> IF HasArtists(track) THEN ArtistName(ArtistOf(track)) ELSE "Unknown"]

NoCall ==
    [caller |-> "none", artist_id |-> 0, time |-> 0, path |-> "none",
     raised |-> FALSE, decision |-> NullDecision, calls |-> <<>>,
     had_override |-> FALSE, override_value |-> FALSE, had_cached |-> FALSE,
     wrote |-> FALSE, prior |-> NullDecision, prior_stored |-> FALSE]

\* No cycle in flight: the loop is about to poll (or asleep before it).
NoCycle ==
    [pc |-> "poll", track |-> NoTrack, ctx |-> "none", play_id |-> <<"play", 0, 0>>,
     skipped |-> FALSE, removed_from_playlist |-> FALSE, added_to_blocked |-> FALSE]

NoLastCycle ==
    [response |-> "none", outcome |-> "none", slept |-> 0, observed |-> "unknown",
     seen |-> NoTrack, paused_before |-> FALSE]

NoStats ==
    [detected |-> 0, recurred |-> FALSE, log_play |-> 0, classify |-> 0,
     take_action |-> 0, classified |-> "no"]

Store == [cfg |-> cfg, now |-> now, overrides |-> overrides,
          decisions |-> decisions, sources |-> sources]

\* The record of one classify_artist call made by caller for artist_id, with
\* result r.
CallRecord(caller, artist_id, r) ==
    LET override == GetOverride(overrides, artist_id)
    IN [caller |-> caller, artist_id |-> artist_id, time |-> now, path |-> r.path,
        raised |-> r.raised, decision |-> r.decision, calls |-> r.calls,
        had_override |-> override # {},
        override_value |-> \E o \in override : FromDbBool(o.is_artificial),
        had_cached |-> GetCachedDecision(decisions, artist_id, now) # {},
        wrote |-> r.decisions # decisions \/ r.sources # sources,
        prior |-> last_fresh[artist_id],
        prior_stored |->
            \E d \in decisions : /\ d.id = last_fresh[artist_id].decision_id
                                 /\ d.cached_until = last_fresh[artist_id].cached_until]

\* last_fresh after a classify_artist call with result r.
LastFresh(artist_id, r) ==
    IF r.path = "fresh" THEN [last_fresh EXCEPT ![artist_id] = r.decision]
    ELSE last_fresh

\* The callers of classify_artist: _process_track in the monitor and
\* POST /classify/{artist_id} in the presentation layer.
Callers == {"monitor", "api"}

\* A classify_artist coroutine that is not running.
NoTask == [pc |-> "idle", artist_id |-> None, path |-> "none",
           decision |-> NullDecision, calls |-> <<>>]
NoTasks == [c \in Callers |-> NoTask]

AggIdle ==
    /\ aggIn = <<>>
    /\ aggPc = "off"

\* The state after construction, the store empty, under one of configs.
InitWith(configs, stop_at) ==
    /\ cfg \in configs
    /\ horizon = stop_at
    /\ now = 1
    /\ overrides = {}
    /\ decisions = {}
    /\ sources = {}
    /\ plays = {}
    /\ actions = {}
    /\ mon = "idle"
    /\ current_backoff = cfg.poll_interval_seconds
    /\ last_track_id = NoTrack
    /\ processed_tracks = {}
    /\ blocked_playlist_id = None
    /\ current_track = NoCurrent
    /\ last_decision = NullDecision
    /\ cycle = NoCycle
    /\ ret = NoCall
    /\ last_fresh = [a \in Artists |-> NullDecision]
    /\ stats = [k \in Tracks |-> NoStats]
    /\ engine = {}
    /\ commands = {}
    /\ last_cycle = NoLastCycle
    /\ streak = 0
    /\ tasks = NoTasks

Init == InitWith(SystemConfigs, MaxTime) /\ AggIdle

\* ----------------------------------------------------------- action engine
\* context.get("type") == "playlist" and get_playlist returned the playlist.
PlaylistFetched(ctx) == ctx \in {"playlist_owned", "playlist_other"}

\* if owner_id == current_user["id"]
OwnedByUserAny(ctx) == TRUE

OwnedByUser(ctx) == ctx = "playlist_owned"

\* Provider answers during one _take_action; the answers that are not asked
\* for are left at FALSE.
ActionEnvs(cf, blocked_id, ctx) ==
    [skip_ok : IF cf.auto_skip THEN BOOLEAN ELSE {FALSE},
     user_raises : IF cf.remove_from_playlists /\ PlaylistFetched(ctx)
                   THEN BOOLEAN ELSE {FALSE},
     remove_ok : IF cf.remove_from_playlists /\ ctx = "playlist_owned"
                 THEN BOOLEAN ELSE {FALSE},
     add_ok : IF blocked_id # None THEN BOOLEAN ELSE {FALSE}]

Cmd(issued, cmd, track) == IF issued THEN {[cmd |-> cmd, track |-> track]} ELSE {}

\* _take_action up to its first await (the provider calls are blocking
\* calls): the commands issued, the three booleans, and whether
\* sp.current_user() raised.
TakeAction(cf, blocked_id, track, ctx, ae) ==
    LET fetched == cf.remove_from_playlists /\ PlaylistFetched(ctx)
        user_raised == fetched /\ ae.user_raises
        remove_cmd == fetched /\ ~user_raised /\ OwnedByUser(ctx)
        add_cmd == ~user_raised /\ blocked_id # None
    IN [raised |-> user_raised,
        commands |-> Cmd(cf.auto_skip, "skip_to_next", track)
                     \cup Cmd(remove_cmd, "remove_from_playlist", track)
                     \cup Cmd(add_cmd, "add_to_playlist", track),
        skipped |-> cf.auto_skip /\ ae.skip_ok,
        removed_from_playlist |-> remove_cmd /\ ae.remove_ok,
        added_to_blocked |-> add_cmd /\ ae.add_ok]

\* insert_action: the row appended to table actions.
ActionRow(acts, play_id, skipped, removed_from_playlist, added_to_blocked, t) ==
    [id |-> Cardinality(acts) + 1, play_id |-> play_id, timestamp |-> t,
     skipped |-> DbBool(skipped),
     removed_from_playlist |-> DbBool(removed_from_playlist),
     added_to_blocked_playlist |-> DbBool(added_to_blocked)]

\* ----------------------------------------------------------------- monitor
\* if track_id in self.processed_tracks
AlreadyProcessedNever(track_id, processed) == FALSE

AlreadyProcessed(track_id, processed) == track_id \in processed

\* self.processed_tracks.add(track_id)
MarkProcessedOnly(track_id, processed) == {track_id}

MarkProcessed(track_id, processed) == processed \cup {track_id}

\* if decision["is_artificial"] is True
ShouldTakeActionUnlessHuman(decision) == decision.is_artificial # "false"

ShouldTakeAction(decision) == decision.is_artificial = "true"

\* _log_play: the play id it returns and the plays table it leaves; a
\* failure anywhere before the insert leaves no row and returns a made-up id.
LogPlay(rows, track, failed, t) ==
    [play_id |-> <<"play", t, track>>,
     plays |-> IF failed THEN rows
               ELSE rows \cup {[id |-> <<"play", t, track>>, timestamp |-> t,
                                 track_id |-> track]}]

\* SpotifyClient.get_current_playback: what the provider can answer to
\* sp.current_playback() (a snapshot, nothing playing, a rate-limit error, another
\* error, or no authenticated client at all) and what the method returns for it.
NonePlayback ==
    [kind |-> "none", is_playing |-> FALSE, type |-> "none", track |-> 0, ctx |-> "none"]

ProviderResponses ==
    {[kind |-> k, snapshot |-> NonePlayback] :
        k \in {"nothing", "rate_limit", "error", "unauthenticated"}} \cup
    {[kind |-> "snapshot", snapshot |-> pb] : pb \in {q \in Playbacks : q.kind = "state"}}

GetCurrentPlayback(response) ==
    IF response.kind = "snapshot" THEN response.snapshot ELSE NonePlayback

\* The loop of start(): after a cycle that returned it sleeps current_backoff,
\* after one that raised it logs the error and sleeps poll_interval.
SleepAfter(raised, backoff, cf) ==
    IF raised THEN cf.poll_interval_seconds ELSE backoff

\* except Exception in the loop of start(): the loop goes on.
AfterCycleRaisedCrash(running) == "crashed"

AfterCycleRaised(running) == running

CycleEnd(response, raised, backoff) ==
    [NoLastCycle EXCEPT
        !.response = response,
        !.outcome = IF raised THEN "raised" ELSE "returned",
        !.slept = SleepAfter(raised, backoff, cfg)]

\* What _monitor_cycle made of the playback it polled: the rate-limit signal,
\* a playing track (and which), or neither.
Observing(end, observed, seen) ==
    [end EXCEPT !.observed = observed, !.seen = seen,
                !.paused_before = /\ observed = "track"
                                  /\ last_cycle.observed = "no_track"
                                  /\ last_cycle.seen = seen]

\* The track of a playback answer that is paused on a track.
PausedTrack(pb) == IF ~pb.is_playing /\ pb.type = "track" THEN pb.track ELSE NoTrack

\* A later step of a cycle ends it.
StepEnd(raised) ==
    [NoLastCycle EXCEPT
        !.outcome = IF raised THEN "raised" ELSE "returned",
        !.slept = SleepAfter(raised, current_backoff, cfg)]

\* self.current_backoff = self.poll_interval, when nothing is playing and when
\* a snapshot came back.
ResetBackoffKept(backoff, cf) == backoff

ResetBackoff(backoff, cf) == cf.poll_interval_seconds

\* min(self.current_backoff * self.rate_limit_backoff, self.max_backoff)
EscalateFromBase(backoff, cf) ==
    Min(cf.poll_interval_seconds * cf.rate_limit_backoff_multiplier,
        cf.max_backoff_seconds)

EscalateUncapped(backoff, cf) == backoff * cf.rate_limit_backoff_multiplier

Escalate(backoff, cf) ==
    Min(backoff * cf.rate_limit_backoff_multiplier, cf.max_backoff_seconds)

\* start(): self.running = True, then _ensure_blocked_playlist, which finds
\* or creates the playlist, or fails and leaves the id unset.
Start ==
    /\ mon = "idle"
    /\ mon' = "running"
    /\ blocked_playlist_id' \in
        IF cfg.blocked_playlist_name # "" THEN {"blocked-id", None} ELSE {None}
    /\ ret' = NoCall
    /\ last_cycle' = NoLastCycle
    /\ UNCHANGED <<cfg, horizon, now, storeVars, current_backoff, last_track_id,
                   processed_tracks, current_track, last_decision, cycle, logVars,
                   aggVars, streak>>

\* stop(): self.running = False; the loop ends after the cycle in flight.
Stop ==
    /\ mon = "running"
    /\ mon' = "stopped"
    /\ ret' = NoCall
    /\ last_cycle' = NoLastCycle
    /\ UNCHANGED <<cfg, horizon, now, storeVars, current_backoff, last_track_id,
                   processed_tracks, blocked_playlist_id, current_track,
                   last_decision, cycle, logVars, aggVars, streak>>

\* self.current_track is assigned past the is_playing and type checks and
\* before the dedup check and the session-once guard; a cycle that returns
\* earlier does not touch it.
PlayingTrack(pb) == pb.kind = "state" /\ pb.is_playing /\ pb.type = "track"

UpdateCurrentTrackCleared(pb, current, processed) ==
    IF PlayingTrack(pb) THEN CurrentTrack(pb.track) ELSE NoCurrent

UpdateCurrentTrackWhenNew(pb, current, processed) ==
    IF PlayingTrack(pb) /\ pb.track \notin processed THEN CurrentTrack(pb.track)
    ELSE current

UpdateCurrentTrack(pb, current, processed) ==
    IF PlayingTrack(pb) THEN CurrentTrack(pb.track) ELSE current

\* The loop of start() is about to call _monitor_cycle.
PollingWhenStopped == mon \in {"running", "stopped"} /\ cycle.pc = "poll"

PollingMidCycle == mon = "running"

Polling == mon = "running" /\ cycle.pc = "poll"

\* _monitor_cycle when get_current_playback returns nothing.
CycleNothingPlayingOn(pb, response) ==
    /\ Polling
    /\ pb.kind = "none"
    /\ current_track' = UpdateCurrentTrack(pb, current_track, processed_tracks)
    /\ current_backoff' = ResetBackoff(current_backoff, cfg)
    /\ streak' = 0
    /\ last_cycle' = Observing(CycleEnd(response, FALSE, current_backoff'),
                              "no_track", NoTrack)
    /\ ret' = NoCall
    /\ UNCHANGED <<cfg, horizon, now, storeVars, mon, last_track_id, processed_tracks,
                   blocked_playlist_id, last_decision, cycle, logVars,
                   aggVars>>

\* A rate-limited cycle is counted until the backoff has reached max_backoff
\* (from where further ones change nothing), and to MaxStreak at most.
CountsRateLimited ==
    /\ streak < MaxStreak
    /\ streak = 0 \/ current_backoff < cfg.max_backoff_seconds

\* _monitor_cycle when get_current_playback returns "rate_limited".
CycleRateLimitedOn(pb, response) ==
    /\ Polling
    /\ pb.kind = "rate_limited"
    /\ current_track' = UpdateCurrentTrack(pb, current_track, processed_tracks)
    /\ current_backoff' = Escalate(current_backoff, cfg)
    /\ streak' = IF CountsRateLimited THEN streak + 1 ELSE streak
    /\ last_cycle' = Observing(CycleEnd(response, FALSE, current_backoff'),
                              "rate_limited", NoTrack)
    /\ ret' = NoCall
    /\ UNCHANGED <<cfg, horizon, now, storeVars, mon, last_track_id, processed_tracks,
                   blocked_playlist_id, last_decision, cycle, logVars,
                   aggVars>>

CycleIgnoredMarksPausedOn(pb, response) ==
    /\ Polling
    /\ pb.kind = "state"
    /\ ~pb.is_playing \/ pb.type # "track"
    /\ current_track' = UpdateCurrentTrack(pb, current_track, processed_tracks)
    /\ current_backoff' = ResetBackoff(current_backoff, cfg)
    /\ streak' = 0
    /\ last_cycle' = Observing(CycleEnd(response, FALSE, current_backoff'),
                              "no_track", PausedTrack(pb))
    /\ ret' = NoCall
    /\ last_track_id' = IF PausedTrack(pb) # NoTrack THEN PausedTrack(pb)
                        ELSE last_track_id
    /\ processed_tracks' = processed_tracks \cup ({PausedTrack(pb)} \ {NoTrack})
    /\ UNCHANGED <<cfg, horizon, now, storeVars, mon,
                   blocked_playlist_id, last_decision, cycle, logVars,
                   aggVars>>

\* _monitor_cycle on a snapshot that is paused or holds no track.
CycleIgnoredOn(pb, response) ==
    /\ Polling
    /\ pb.kind = "state"
    /\ ~pb.is_playing \/ pb.type # "track"
    /\ current_track' = UpdateCurrentTrack(pb, current_track, processed_tracks)
    /\ current_backoff' = ResetBackoff(current_backoff, cfg)
    /\ streak' = 0
    /\ last_cycle' = Observing(CycleEnd(response, FALSE, current_backoff'),
                              "no_track", PausedTrack(pb))
    /\ ret' = NoCall
    /\ UNCHANGED <<cfg, horizon, now, storeVars, mon, last_track_id, processed_tracks,
                   blocked_playlist_id, last_decision, cycle, logVars,
                   aggVars>>

\* self.last_track_id = track_id
RecordLastTrackKept(track_id, last) == last

RecordLastTrack(track_id, last) == track_id

\* _monitor_cycle on the track seen in the last check.
CycleSameTrackOn(pb, response) ==
    /\ Polling
    /\ pb.kind = "state" /\ pb.is_playing /\ pb.type = "track"
    /\ pb.track = last_track_id
    /\ current_track' = UpdateCurrentTrack(pb, current_track, processed_tracks)
    /\ current_backoff' = ResetBackoff(current_backoff, cfg)
    /\ streak' = 0
    /\ last_cycle' = Observing(CycleEnd(response, FALSE, current_backoff'),
                              "track", pb.track)
    /\ ret' = NoCall
    /\ UNCHANGED <<cfg, horizon, now, storeVars, mon, last_track_id, processed_tracks,
                   blocked_playlist_id, last_decision, cycle, logVars, aggVars>>

\* _monitor_cycle on another track than the last one, processed before.
CycleSeenBeforeOn(pb, response) ==
    /\ Polling
    /\ pb.kind = "state" /\ pb.is_playing /\ pb.type = "track"
    /\ pb.track # last_track_id
    /\ AlreadyProcessed(pb.track, processed_tracks)
    /\ current_track' = UpdateCurrentTrack(pb, current_track, processed_tracks)
    /\ last_track_id' = RecordLastTrack(pb.track, last_track_id)
    /\ stats' = [stats EXCEPT ![pb.track].recurred = TRUE]
    /\ current_backoff' = ResetBackoff(current_backoff, cfg)
    /\ streak' = 0
    /\ last_cycle' = Observing(CycleEnd(response, FALSE, current_backoff'),
                              "track", pb.track)
    /\ ret' = NoCall
    /\ UNCHANGED <<cfg, horizon, now, storeVars, mon, processed_tracks,
                   blocked_playlist_id, last_decision, cycle, last_fresh,
                   engine, commands, aggVars>>

\* _monitor_cycle on a track that is new in this run, up to the first await
\* of _process_track: the track is recorded as last seen and as processed.
CycleNewTrackOn(pb, response) ==
    /\ Polling
    /\ pb.kind = "state" /\ pb.is_playing /\ pb.type = "track"
    /\ pb.track # last_track_id
    /\ ~AlreadyProcessed(pb.track, processed_tracks)
    /\ current_track' = UpdateCurrentTrack(pb, current_track, processed_tracks)
    /\ last_track_id' = RecordLastTrack(pb.track, last_track_id)
    /\ processed_tracks' = MarkProcessed(pb.track, processed_tracks)
    /\ stats' = [stats EXCEPT ![pb.track].detected = @ + 1]
    /\ cycle' = IF HasArtists(pb.track)
                THEN [NoCycle EXCEPT !.pc = "log_play", !.track = pb.track,
                                     !.ctx = pb.ctx]
                ELSE NoCycle
    /\ current_backoff' = ResetBackoff(current_backoff, cfg)
    /\ streak' = 0
    /\ last_cycle' = Observing(IF HasArtists(pb.track)
                              THEN [NoLastCycle EXCEPT !.response = response,
                                                       !.outcome = "in_flight"]
                              ELSE CycleEnd(response, FALSE, current_backoff'),
                              "track", pb.track)
    /\ ret' = NoCall
    /\ UNCHANGED <<cfg, horizon, now, storeVars, mon, blocked_playlist_id, last_decision,
                   last_fresh, engine, commands, aggVars>>

\* The monitor polling a client that hands over any of the three outcomes of
\* get_current_playback the monitor tells apart.
CycleNothingPlaying == \E pb \in Playbacks : CycleNothingPlayingOn(pb, "any")
CycleRateLimited == \E pb \in Playbacks : CycleRateLimitedOn(pb, "any")
CycleIgnored == \E pb \in Playbacks : CycleIgnoredOn(pb, "any")
CycleSameTrack == \E pb \in Playbacks : CycleSameTrackOn(pb, "any")
CycleSeenBefore == \E pb \in Playbacks : CycleSeenBeforeOn(pb, "any")
CycleNewTrack == \E pb \in Playbacks : CycleNewTrackOn(pb, "any")

\* The monitor polling SpotifyClient: _monitor_cycle on what
\* get_current_playback returns for the provider's answer.
SpotifyCycle ==
    \E response \in ProviderResponses :
        LET pb == GetCurrentPlayback(response)
        IN IF pb.kind = "none" THEN CycleNothingPlayingOn(pb, response.kind)
           ELSE IF pb.kind = "rate_limited" THEN CycleRateLimitedOn(pb, response.kind)
           ELSE IF ~pb.is_playing \/ pb.type # "track"
           THEN CycleIgnoredOn(pb, response.kind)
           ELSE IF pb.track = last_track_id THEN CycleSameTrackOn(pb, response.kind)
           ELSE IF AlreadyProcessed(pb.track, processed_tracks)
           THEN CycleSeenBeforeOn(pb, response.kind)
           ELSE CycleNewTrackOn(pb, response.kind)

\* The adapter answers and store fault of one classify_artist call; a call
\* that resolves without the adapters is given no answers to choose from.
ClassifyEnvs(artist_id) ==
    LET fresh == Resolve(GetOverride(overrides, artist_id) # {},
                         GetCachedDecision(decisions, artist_id, now) # {}) = "fresh"
    IN [fault : IF fresh THEN ClassifyFaults
                ELSE {NoFault, [op |-> "get_override", at |-> 0],
                      [op |-> "get_cached_decision", at |-> 0]},
        outcome : IF fresh THEN [cfg.enabled -> SystemOutcomes]
                  ELSE {[s \in cfg.enabled |-> "fail"]}]

\* _process_track: play_id = await self._log_play(playback, item).
LogPlayStep ==
    /\ cycle.pc = "log_play"
    /\ \E failed \in BOOLEAN :
        LET lp == LogPlay(plays, cycle.track, failed, now)
        IN /\ plays' = lp.plays
           /\ cycle' = [cycle EXCEPT !.pc = "classify", !.play_id = lp.play_id]
    /\ stats' = [stats EXCEPT ![cycle.track].log_play = @ + 1]
    /\ ret' = NoCall
    /\ last_cycle' = NoLastCycle
    /\ UNCHANGED <<cfg, horizon, now, overrides, decisions, sources, actions, mon,
                   current_backoff, last_track_id, processed_tracks,
                   blocked_playlist_id, current_track, last_decision,
                   last_fresh, engine, commands, aggVars, streak>>

\* _process_track: the classify_artist call, and when the decision is
\* artificial _take_action up to its insert_action.  An exception leaves the
\* cycle; the loop in start() logs it and goes on.
ProcessClassified(artist_id, r) ==
    LET track == cycle.track
        call == CallRecord("monitor", artist_id, r)
        act == ~r.raised /\ ShouldTakeAction(r.decision)
    IN /\ r.now <= horizon
       /\ ret' = call
       /\ last_fresh' = LastFresh(artist_id, r)
       /\ decisions' = r.decisions
       /\ sources' = r.sources
       /\ now' = r.now
       /\ last_decision' = IF r.raised THEN last_decision ELSE r.decision
       /\ stats' = [stats EXCEPT
            ![track].classify = @ + 1,
            ![track].take_action = IF act THEN @ + 1 ELSE @,
            ![track].classified =
                IF r.raised
                THEN (IF call.had_override /\ call.override_value
                      THEN "raised_artificial" ELSE "raised")
                ELSE r.decision.is_artificial]
       /\ IF ~act
          THEN /\ cycle' = NoCycle
               /\ last_cycle' = StepEnd(r.raised)
               /\ mon' = IF r.raised THEN AfterCycleRaised(mon) ELSE mon
               /\ UNCHANGED <<engine, commands>>
          ELSE \E ae \in ActionEnvs(cfg, blocked_playlist_id, cycle.ctx) :
                LET ta == TakeAction(cfg, blocked_playlist_id, track,
                                     cycle.ctx, ae)
                IN /\ engine' = engine \cup
                        {[track |-> track,
                          is_artificial |-> r.decision.is_artificial,
                          play_id |-> cycle.play_id]}
                   /\ commands' = commands \cup ta.commands
                   /\ cycle' =
                        IF ta.raised THEN NoCycle
                        ELSE [cycle EXCEPT
                                !.pc = "insert_action",
                                !.skipped = ta.skipped,
                                !.removed_from_playlist = ta.removed_from_playlist,
                                !.added_to_blocked = ta.added_to_blocked]
                   /\ last_cycle' = IF ta.raised THEN StepEnd(TRUE)
                                    ELSE NoLastCycle
                   /\ mon' = IF ta.raised THEN AfterCycleRaised(mon) ELSE mon

ClassifyStep ==
    /\ cycle.pc = "classify"
    /\ LET artist_id == ArtistOf(cycle.track)
       IN \E env \in ClassifyEnvs(artist_id) :
            ProcessClassified(artist_id,
                ClassifyArtist(Store, artist_id, ArtistName(artist_id), env))
    /\ UNCHANGED <<cfg, horizon, overrides, plays, actions, current_backoff,
                   last_track_id, processed_tracks, blocked_playlist_id,
                   current_track, aggVars, streak>>

\* _take_action: await self.db.insert_action(...), which may raise.
InsertActionStep ==
    /\ cycle.pc = "insert_action"
    /\ \E failed \in BOOLEAN :
        /\ actions' = IF failed THEN actions
                      ELSE actions \cup
                           {ActionRow(actions, cycle.play_id, cycle.skipped,
                                      cycle.removed_from_playlist,
                                      cycle.added_to_blocked, now)}
        /\ last_cycle' = StepEnd(failed)
        /\ mon' = IF failed THEN AfterCycleRaised(mon) ELSE mon
    /\ cycle' = NoCycle
    /\ ret' = NoCall
    /\ UNCHANGED <<cfg, horizon, now, overrides, decisions, sources, plays,
                   current_backoff, last_track_id, processed_tracks,
                   blocked_playlist_id, current_track, last_decision,
                   logVars, aggVars, streak>>

\* ------------------------------------------------------ presentation layer
OverrideReasons == {"manual"}

\* POST /overrides/{artist_id}
SetOverride ==
    /\ \E artist_id \in Artists, is_artificial \in BOOLEAN, reason \in OverrideReasons :
        overrides' = SetOverrideRows(overrides, artist_id, is_artificial, reason)
    /\ ret' = NoCall
    /\ last_cycle' = NoLastCycle
    /\ UNCHANGED <<cfg, horizon, now, decisions, sources, plays, actions, monVars,
                   logVars, aggVars, streak>>

\* DELETE /overrides/{artist_id}
DeleteOverride ==
    /\ \E artist_id \in Artists :
        /\ GetOverride(overrides, artist_id) # {}
        /\ overrides' = DeleteOverrideRows(overrides, artist_id)
    /\ ret' = NoCall
    /\ last_cycle' = NoLastCycle
    /\ UNCHANGED <<cfg, horizon, now, decisions, sources, plays, actions, monVars,
                   logVars, aggVars, streak>>

\* Database.invalidate_cache
InvalidateCache ==
    /\ \E artist_id \in Artists :
        /\ \E d \in decisions : d.artist_id = artist_id /\ d.cached_until # Past
        /\ decisions' = InvalidateCacheRows(decisions, artist_id)
    /\ ret' = NoCall
    /\ last_cycle' = NoLastCycle
    /\ UNCHANGED <<cfg, horizon, now, overrides, sources, plays, actions, monVars,
                   logVars, aggVars, streak>>

\* POST /classify/{artist_id}: classify_artist called outside the monitor.
Reclassify ==
    /\ \E artist_id \in Artists :
        \E env \in ClassifyEnvs(artist_id) :
            LET r == ClassifyArtist(Store, artist_id, ArtistName(artist_id), env)
            IN /\ r.now <= horizon
               /\ ret' = CallRecord("api", artist_id, r)
               /\ last_fresh' = LastFresh(artist_id, r)
               /\ decisions' = r.decisions
               /\ sources' = r.sources
               /\ now' = r.now
    /\ last_cycle' = NoLastCycle
    /\ UNCHANGED <<cfg, horizon, overrides, plays, actions, monVars, stats, engine,
                   commands, aggVars, streak>>

\* Time passes.
Tick ==
    /\ now < horizon
    /\ now' = now + 1
    /\ ret' = NoCall
    /\ last_cycle' = NoLastCycle
    /\ UNCHANGED <<cfg, horizon, storeVars, monVars, logVars, aggVars, streak>>

\* The monitor, with the presentation layer setting and deleting overrides
\* beside it.
Next ==
    \/ Start
    \/ Stop
    \/ CycleNothingPlaying
    \/ CycleRateLimited
    \/ CycleIgnored
    \/ CycleSameTrack
    \/ CycleSeenBefore
    \/ CycleNewTrack
    \/ LogPlayStep
    \/ ClassifyStep
    \/ InsertActionStep
    \/ SetOverride
    \/ DeleteOverride
    \/ Tick

Spec == Init /\ [][Next]_vars

\* One _monitor_cycle call of the loop of start().
MonitorPoll ==
    \/ CycleNothingPlaying
    \/ CycleRateLimited
    \/ CycleIgnored
    \/ CycleSameTrack
    \/ CycleSeenBefore
    \/ CycleNewTrack

\* The polling loop alone, under the backoff settings.
NextBackoff ==
    \/ Start
    \/ Stop
    \/ MonitorPoll
    \/ LogPlayStep
    \/ ClassifyStep
    \/ InsertActionStep

InitBackoff == InitWith(BackoffConfigs, MaxTime) /\ AggIdle

SpecBackoff == InitBackoff /\ [][NextBackoff]_vars

\* while self.running: the loop is a coroutine of the event loop, so while
\* the monitor runs and no cycle is in flight the next _monitor_cycle call
\* is eventually made.
SpecLoop == InitBackoff /\ [][NextBackoff]_vars /\ WF_vars(MonitorPoll)

\* The loop with every await of a cycle returning: the poll is made while the
\* monitor runs, and _log_play, classify_artist and insert_action return or
\* raise.
SpecStop ==
    /\ InitBackoff
    /\ [][NextBackoff]_vars
    /\ WF_vars(MonitorPoll)
    /\ WF_vars(LogPlayStep)
    /\ WF_vars(InsertActionStep)
    /\ []<>(cycle.pc # "classify")

\* The monitor polling SpotifyClient, as main.py wires it.
NextClient ==
    \/ Start
    \/ Stop
    \/ SpotifyCycle
    \/ LogPlayStep
    \/ ClassifyStep
    \/ InsertActionStep

SpecClient == Init /\ [][NextClient]_vars

\* The aggregator and the store alone, over a longer time.
NextClassifier ==
    \/ SetOverride
    \/ DeleteOverride
    \/ InvalidateCache
    \/ Reclassify
    \/ Tick

InitClassifier == InitWith(ClassifierConfigs, MaxClassifierTime) /\ AggIdle

SpecClassifier == InitClassifier /\ [][NextClassifier]_vars

\* ---------------------------------------------------------- aggregation run
\* One classify_artist call for a performer with no override and no cached
\* decision, the two lookups succeeding: the fan-out, _aggregate_sources and
\* _store_decision, under every configuration and every adapter answer.
StoreFaults ==
    {f \in ClassifyFaults : f.op \notin {"get_override", "get_cached_decision"}}

Evaluate ==
    /\ aggPc = "ready"
    /\ aggPc' = "done"
    /\ \E artist_id \in Artists, fault \in StoreFaults :
        LET r == ClassifyArtist(Store, artist_id, ArtistName(artist_id),
                                [fault |-> fault, outcome |-> aggIn])
        IN /\ ret' = CallRecord("aggregate", artist_id, r)
           /\ last_fresh' = LastFresh(artist_id, r)
           /\ decisions' = r.decisions
           /\ sources' = r.sources
           /\ now' = r.now
    /\ UNCHANGED <<cfg, horizon, overrides, plays, actions, monVars, stats, engine,
                   commands, aggIn, tasks, pollVars>>

InitAgg ==
    /\ InitWith(AggConfigs, MaxTime)
    /\ aggIn \in [cfg.enabled -> AdapterOutcomes]
    /\ aggPc = "ready"

NextAgg == Evaluate

SpecAgg == InitAgg /\ [][NextAgg]_vars

\* ------------------------------------------------- calls await by await
\* classify_artist up to the answer of await self.db.get_override: an
\* override ends the call, otherwise the cache lookup is next.
TaskStart(c, artist_id) ==
    /\ tasks[c].pc = "idle"
    /\ LET override == GetOverride(overrides, artist_id)
       IN tasks' = [tasks EXCEPT ![c] =
            IF override # {}
            THEN [pc |-> "returned", artist_id |-> artist_id, path |-> "override",
                  decision |-> OverrideDecision(cfg, artist_id, ArtistName(artist_id),
                                                CHOOSE o \in override : TRUE, now),
                  calls |-> <<>>]
            ELSE [NoTask EXCEPT !.pc = "get_cached_decision",
                                !.artist_id = artist_id]]

\* _process_track: decision = await self.classifier.classify_artist(...).
MonitorCall ==
    /\ cycle.pc = "classify"
    /\ TaskStart("monitor", ArtistOf(cycle.track))
    /\ ret' = NoCall
    /\ last_cycle' = NoLastCycle
    /\ UNCHANGED <<cfg, horizon, now, storeVars, monVars, logVars, aggIn, aggPc,
                   streak>>

\* reclassify_artist: decision = await classifier.classify_artist(...).
ApiCall ==
    /\ \E artist_id \in Artists : TaskStart("api", artist_id)
    /\ ret' = NoCall
    /\ last_cycle' = NoLastCycle
    /\ UNCHANGED <<cfg, horizon, now, storeVars, monVars, logVars, aggIn, aggPc,
                   streak>>

\* classify_artist from the answer of await self.db.get_cached_decision: a
\* live decision ends the call, otherwise the sources are queried.
TaskGetCached ==
    /\ \E c \in Callers :
        /\ tasks[c].pc = "get_cached_decision"
        /\ LET cached == GetCachedDecision(decisions, tasks[c].artist_id, now)
           IN tasks' = [tasks EXCEPT ![c] =
                IF cached # {}
                THEN [@ EXCEPT !.pc = "returned", !.path = "cache",
                               !.decision = DecisionFromDb(CHOOSE d \in cached : TRUE)]
                ELSE [@ EXCEPT !.pc = "query"]]
    /\ ret' = NoCall
    /\ last_cycle' = NoLastCycle
    /\ UNCHANGED <<cfg, horizon, now, storeVars, monVars, logVars, aggIn, aggPc,
                   streak>>

\* classify_artist: the adapter loop and _aggregate_sources.
TaskQuery ==
    /\ now < horizon
    /\ now' = now + 1
    /\ \E c \in Callers :
        /\ tasks[c].pc = "query"
        /\ \E outcome \in [cfg.enabled -> SystemOutcomes] :
            LET q == QueryLoop(Classifiers(cfg.enabled), outcome, NoResults)
                artist_id == tasks[c].artist_id
            IN tasks' = [tasks EXCEPT ![c] =
                    [@ EXCEPT !.pc = "store", !.path = "fresh", !.calls = q.calls,
                              !.decision =
                                AggregateSources(cfg, artist_id, ArtistName(artist_id),
                                                 q.calls, q.results, now + 1)]]
    /\ ret' = NoCall
    /\ last_cycle' = NoLastCycle
    /\ UNCHANGED <<cfg, horizon, storeVars, monVars, logVars, aggIn, aggPc, streak>>

\* classify_artist: await self._store_decision(decision).
TaskStore ==
    /\ \E c \in Callers :
        /\ tasks[c].pc = "store"
        /\ LET stored == StoreDecision(decisions, sources, tasks[c].decision,
                                       tasks[c].calls, NoFault, now)
           IN /\ decisions' = stored.decisions
              /\ sources' = stored.sources
        /\ tasks' = [tasks EXCEPT ![c].pc = "returned"]
    /\ ret' = NoCall
    /\ last_cycle' = NoLastCycle
    /\ UNCHANGED <<cfg, horizon, now, overrides, plays, actions, monVars, logVars,
                   aggIn, aggPc, streak>>

\* What a finished coroutine hands to its caller.
TaskResult(c) ==
    [raised |-> FALSE, path |-> tasks[c].path, decision |-> tasks[c].decision,
     calls |-> tasks[c].calls, decisions |-> decisions, sources |-> sources,
     now |-> now]

\* _process_track after classify_artist returned: should_take_action and
\* _take_action up to its insert_action.
MonitorReturn ==
    /\ cycle.pc = "classify"
    /\ tasks["monitor"].pc = "returned"
    /\ ProcessClassified(tasks["monitor"].artist_id, TaskResult("monitor"))
    /\ tasks' = [tasks EXCEPT !["monitor"] = NoTask]
    /\ UNCHANGED <<cfg, horizon, overrides, plays, actions, current_backoff,
                   last_track_id, processed_tracks, blocked_playlist_id,
                   current_track, aggIn, aggPc, streak>>

\* reclassify_artist after classify_artist returned: the JSON response.
ApiReturn ==
    /\ tasks["api"].pc = "returned"
    /\ ret' = CallRecord("api", tasks["api"].artist_id, TaskResult("api"))
    /\ last_fresh' = LastFresh(tasks["api"].artist_id, TaskResult("api"))
    /\ tasks' = [tasks EXCEPT !["api"] = NoTask]
    /\ last_cycle' = NoLastCycle
    /\ UNCHANGED <<cfg, horizon, now, storeVars, monVars, stats, engine, commands,
                   aggIn, aggPc, streak>>

\* The monitor processing a track while the presentation layer reclassifies
\* and sets overrides, every coroutine advancing from one await to the next.
NextTasks ==
    \/ Start
    \/ CycleNewTrack
    \/ LogPlayStep
    \/ MonitorCall
    \/ ApiCall
    \/ TaskGetCached
    \/ TaskQuery
    \/ TaskStore
    \/ MonitorReturn
    \/ ApiReturn
    \/ InsertActionStep
    \/ SetOverride

\* The monitor's configurations, with a cache window that outlasts a source
\* query.
TaskConfigs == {[c EXCEPT !.cache_duration = 2] : c \in SystemConfigs}

InitTasks == InitWith(TaskConfigs, MaxClassifierTime) /\ AggIdle

SpecTasks == InitTasks /\ [][NextTasks]_vars

\* ------------------------------------------------------------- properties
\* The votes of the aggregation run, counted from the adapter answers.
ArtificialVoters == {s \in DOMAIN aggIn : aggIn[s] \in ARTIFICIAL_LABELS}
HumanVoters == {s \in DOMAIN aggIn : aggIn[s] \in {"human", "band"}}
FailedAdapters == {s \in DOMAIN aggIn : aggIn[s] \in {"raise", "fail"}}

\* The first source in adapter order that voted artificial.
FirstArtificialVoter ==
    AdapterOrder[CHOOSE i \in 1..Len(AdapterOrder) :
        /\ AdapterOrder[i] \in ArtificialVoters
        /\ \A j \in 1..(i - 1) : AdapterOrder[j] \notin ArtificialVoters]

\* The votes of a returned fresh decision, counted from its sources.
VotesIn(decision, labels) ==
    Cardinality({s \in DOMAIN decision.sources :
        decision.sources[s].success /\ decision.sources[s].result \in labels})

\* The fields of a decision that the decisions table keeps.
PersistedFields(d) ==
    [decision_id |-> d.decision_id, artist_id |-> d.artist_id, label |-> d.label,
     is_artificial |-> d.is_artificial, confidence |-> d.confidence,
     sources_agreeing |-> d.sources_agreeing, min_required |-> d.min_required,
     band_policy_applied |-> d.band_policy_applied, llm_used |-> d.llm_used,
     decision_reason |-> d.decision_reason, cached_until |-> d.cached_until]

Returned == ret.caller # "none" /\ ~ret.raised

\* C1: a classify_artist call for a performer that has an override returns the
\* override-derived decision (is_artificial the override's value, confidence
\* 1.0, sources_agreeing 0, band_policy_applied false), calls no adapter and
\* writes no decision or source row, whether or not a live cached decision
\* exists.
OverridePrecedence ==
    (Returned /\ ret.had_override) =>
        /\ ret.decision.is_artificial = (IF ret.override_value THEN "true" ELSE "false")
        /\ ret.decision.confidence = ConfUnit
        /\ ret.decision.sources_agreeing = 0
        /\ ~ret.decision.band_policy_applied
        /\ ret.calls = <<>>
        /\ ~ret.wrote

OverrideOverCacheReached ==
    /\ Returned /\ ret.had_override /\ ret.had_cached
    /\ ret.decision.label = "override"

\* C2 as stated: without an override, a call made before the cached_until of
\* the decision a fresh evaluation returned gets a decision identical to it in
\* every field, and calls no adapter.
CacheReturnsIdenticalDecision ==
    (/\ Returned /\ ~ret.had_override
     /\ ret.prior # NullDecision
     /\ ret.time < ret.prior.cached_until) =>
        /\ ret.decision = ret.prior
        /\ ret.calls = <<>>

\* C2: without an override, when the decision a fresh evaluation returned was
\* written to the decisions table and its row was not invalidated, a call made
\* before its cached_until calls no adapter, writes nothing and returns a
\* decision with the same persisted fields, an empty artist_name and no
\* sources.
CacheReturnsPersistedFields ==
    (/\ Returned /\ ~ret.had_override
     /\ ret.prior # NullDecision
     /\ ret.prior_stored
     /\ ret.time < ret.prior.cached_until) =>
        /\ ret.calls = <<>>
        /\ ~ret.wrote
        /\ PersistedFields(ret.decision) = PersistedFields(ret.prior)
        /\ ret.decision.artist_name = ""
        /\ ret.decision.sources = <<>>

CacheHitReached ==
    /\ Returned /\ ~ret.had_override /\ ret.path = "cache"
    /\ ret.prior_stored
    /\ ret.time < ret.prior.cached_until
    /\ ret.prior.is_artificial = "null"
    /\ ret.prior.sources # <<>>

\* C3: for every combination of adapter answers, threshold and band policy
\* setting the decision is that of the four branches taken in order:
\* artificial votes reach the threshold (label of the first artificial voter
\* in adapter order); band policy on, an artificial vote and no human vote
\* (band_policy_applied); human votes reach the threshold (label human);
\* otherwise null, unknown, confidence 0.  human and band are human votes, any
\* other label is no vote.
FourBranchPolicy ==
    (aggPc = "done") =>
        LET d == ret.decision
            a == Cardinality(ArtificialVoters)
            h == Cardinality(HumanVoters)
        IN IF a >= cfg.min_source_agreement
           THEN d.is_artificial = "true" /\ d.label = aggIn[FirstArtificialVoter]
           ELSE IF cfg.band_policy /\ a > 0 /\ h = 0
           THEN d.is_artificial = "true" /\ d.band_policy_applied
           ELSE IF h >= cfg.min_source_agreement
           THEN d.is_artificial = "false" /\ d.label = "human"
           ELSE d.is_artificial = "null" /\ d.label = "unknown" /\ d.confidence = 0

\* Human votes made of a human and a band answer reach the threshold.
HumanAndBandVotesReached ==
    /\ aggPc = "done"
    /\ cfg.enabled = SourceNames /\ cfg.min_source_agreement = 2
    /\ aggIn["wikidata"] = "unknown" /\ aggIn["musicbrainz"] = "band"
    /\ aggIn["lastfm"] = "human"
    /\ ret.decision.is_artificial = "false"

\* C4: when every enabled adapter raises or returns success=False the call
\* does not raise and returns label unknown, is_artificial null, confidence 0.
AllAdaptersFailed ==
    (aggPc = "done" /\ FailedAdapters = cfg.enabled) =>
        /\ ~ret.raised
        /\ ret.decision.label = "unknown"
        /\ ret.decision.is_artificial = "null"
        /\ ret.decision.confidence = 0

AllAdaptersFailedReached ==
    /\ aggPc = "done"
    /\ cfg.enabled = SourceNames
    /\ aggIn["wikidata"] = "raise" /\ aggIn["musicbrainz"] = "fail"
    /\ aggIn["lastfm"] = "raise"
    /\ ret.decision.label = "unknown"

\* C5: a fresh evaluation calls every enabled adapter exactly once whatever
\* the other adapters answer, and tallies over all of them: the votes are
\* those of all adapters that succeeded, a failed adapter counting for
\* neither side.
EveryAdapterCalledOnce ==
    (aggPc = "done") =>
        LET d == ret.decision
            a == Cardinality(ArtificialVoters)
            h == Cardinality(HumanVoters)
        IN /\ Len(ret.calls) = Cardinality(cfg.enabled)
           /\ {ret.calls[i] : i \in 1..Len(ret.calls)} = cfg.enabled
           /\ DOMAIN d.sources = cfg.enabled
           /\ \A s \in cfg.enabled : d.sources[s].success <=> s \notin FailedAdapters
           /\ d.sources_agreeing = (IF d.is_artificial = "true" THEN a ELSE h)
           /\ d.is_artificial = "null" =>
                /\ d.decision_reason[2] = a
                /\ d.decision_reason[3] = h
                /\ d.decision_reason[4] = Cardinality(cfg.enabled \ FailedAdapters)

\* The first adapter raises, the second votes artificial, the third is
\* still called and counted.
FanOutPastFailureReached ==
    /\ aggPc = "done"
    /\ cfg.enabled = SourceNames /\ cfg.min_source_agreement = 1
    /\ aggIn["wikidata"] = "raise" /\ aggIn["musicbrainz"] = "vocaloid"
    /\ aggIn["lastfm"] = "vtuber"
    /\ ret.calls = AdapterOrder
    /\ ret.decision.sources_agreeing = 2

\* C6: band_policy_applied is true only when the band policy is enabled,
\* there is an artificial vote and there is no human vote; a human vote
\* always leaves it false.
BandPolicyGuard ==
    (aggPc = "done") =>
        LET a == Cardinality(ArtificialVoters)
            h == Cardinality(HumanVoters)
        IN /\ ret.decision.band_policy_applied => (cfg.band_policy /\ a > 0 /\ h = 0)
           /\ h >= 1 => ~ret.decision.band_policy_applied

\* Band policy on, one artificial vote below the threshold, one human vote.
HumanVoteSuppressesBandPolicyReached ==
    /\ aggPc = "done"
    /\ cfg.band_policy /\ cfg.min_source_agreement = 2
    /\ Cardinality(ArtificialVoters) = 1 /\ Cardinality(HumanVoters) = 1
    /\ ~ret.decision.band_policy_applied
    /\ ret.decision.is_artificial = "null"

\* C7: every returned decision has 0 <= confidence <= 1; a fresh decision's
\* confidence is the winning side's votes over the number of enabled
\* sources, and at most 0.8 when the band policy was applied.
ConfidenceBounds ==
    Returned =>
        LET d == ret.decision
            n == Cardinality(cfg.enabled)
            a == VotesIn(d, ARTIFICIAL_LABELS)
            h == VotesIn(d, {"human", "band"})
        IN /\ 0 <= d.confidence /\ d.confidence <= ConfUnit
           /\ ret.path = "fresh" =>
                IF d.is_artificial = "true" /\ d.band_policy_applied
                THEN IF 5 * a >= 4 * n THEN 5 * d.confidence = 4 * ConfUnit
                     ELSE d.confidence * n = a * ConfUnit
                ELSE IF d.is_artificial = "true" THEN d.confidence * n = a * ConfUnit
                ELSE IF d.is_artificial = "false" THEN d.confidence * n = h * ConfUnit
                ELSE d.confidence = 0

\* The band policy applied where votes / sources is above 0.8.
BandCapReached ==
    /\ Returned /\ ret.path = "fresh"
    /\ ret.decision.band_policy_applied
    /\ VotesIn(ret.decision, ARTIFICIAL_LABELS) = Cardinality(cfg.enabled)
    /\ 5 * ret.decision.confidence = 4 * ConfUnit

PlaysOf(track) == {p \in plays : p.track_id = track}
ActionsOf(track) == {a \in actions : a.play_id[3] = track}
CommandsOf(track) == {c \in commands : c.track = track}

\* C8: in one run of the monitor a track id is processed at most once: at
\* most one play is logged, one classification requested and one action
\* engine invocation made for it, whatever the polls return.
SessionOnce ==
    \A track \in Tracks :
        /\ stats[track].detected <= 1
        /\ stats[track].log_play <= 1
        /\ stats[track].classify <= 1
        /\ stats[track].take_action <= 1
        /\ Cardinality(PlaysOf(track)) <= 1
        /\ Cardinality(ActionsOf(track)) <= 1

\* A track that was processed and acted on came back after another track.
RecurredAfterProcessingReached ==
    \E track \in Tracks :
        /\ stats[track].recurred
        /\ stats[track].take_action = 1
        /\ Cardinality(PlaysOf(track)) = 1
        /\ cycle.pc = "poll"

\* C9 as stated: for a track detected as new whose performer is classified
\* artificial, the action engine is invoked exactly once in the run, also
\* when an error interrupted the cycle that detected the track.
ActionExactlyOnce ==
    \A track \in Tracks :
        (/\ stats[track].detected >= 1
         /\ cycle.track # track
         /\ stats[track].classified \in {"true", "raised_artificial"}) =>
            stats[track].take_action = 1

\* C10: the action engine is invoked only on a decision whose is_artificial
\* is true; a track whose decision is false or null gets no skip, no playlist
\* removal, no blocked-playlist append and no action row.
ActionOnlyWhenArtificial ==
    /\ \A e \in engine : e.is_artificial = "true"
    /\ \A track \in Tracks :
        stats[track].classified \in {"false", "null"} =>
            /\ stats[track].take_action = 0
            /\ CommandsOf(track) = {}
            /\ ActionsOf(track) = {}

\* A track with an inconclusive decision went through its whole cycle with
\* every action switched on.
InconclusiveTrackReached ==
    \E track \in Tracks :
        /\ stats[track].classified = "null"
        /\ cycle.pc = "poll"
        /\ cfg.auto_skip /\ blocked_playlist_id # None
        /\ CommandsOf(track) = {}

RECURSIVE Pow(_, _)
Pow(b, k) == IF k = 0 THEN 1 ELSE b * Pow(b, k - 1)

Base == cfg.poll_interval_seconds
Multiplier == cfg.rate_limit_backoff_multiplier
MaxBackoff == cfg.max_backoff_seconds

\* C11 as stated: in every reachable state of the monitor the current backoff
\* is at most max_backoff_seconds.
BackoffAtMostMax == current_backoff <= MaxBackoff

\* C11: the current backoff is at most the larger of poll_interval_seconds and
\* max_backoff_seconds, so at most max_backoff_seconds when the poll interval
\* does not exceed it, whatever the polls return.
BackoffAtMostBaseOrMax ==
    /\ current_backoff <= (IF Base > MaxBackoff THEN Base ELSE MaxBackoff)
    /\ Base <= MaxBackoff => current_backoff <= MaxBackoff

\* The cap cut an escalation short.
BackoffCapReached ==
    /\ streak >= 1
    /\ Base * Pow(Multiplier, streak) > MaxBackoff
    /\ current_backoff = MaxBackoff
    /\ last_cycle.outcome = "returned"

\* C12: after a poll that did not hand over the rate-limit signal, and
\* through whatever the cycle does afterwards, the current backoff is the
\* base poll interval.
BackoffResetWhenNotRateLimited ==
    /\ streak = 0 => current_backoff = Base
    /\ cycle.pc # "poll" => streak = 0
    /\ last_cycle.outcome = "raised" => streak = 0

\* A cycle that polled a new track raised later on.
ResetThenRaisedReached ==
    /\ last_cycle.outcome = "raised"
    /\ stats[1].detected = 1
    /\ current_backoff = Base
    /\ Base < MaxBackoff /\ Multiplier > 1

\* C13: after k >= 1 rate-limited cycles in a row, starting at the base, the
\* backoff is min(base * multiplier^k, max); with base 2, multiplier 2 and max
\* 30 it is 4, 8, 16, 30 and stays 30.
BackoffAfterStreak ==
    streak >= 1 =>
        /\ current_backoff =
            (IF Base * Pow(Multiplier, streak) <= MaxBackoff
             THEN Base * Pow(Multiplier, streak) ELSE MaxBackoff)
        /\ (Base = 2 /\ Multiplier = 2 /\ MaxBackoff = 30) =>
                current_backoff = <<4, 8, 16, 30, 30>>[streak]

FourthRateLimitedCycleReached ==
    /\ Base = 2 /\ Multiplier = 2 /\ MaxBackoff = 30
    /\ streak = 4
    /\ current_backoff = 30
    /\ last_cycle.slept = 30

\* C14 as stated: a rate-limit answer of the provider reaches the monitor as
\* the rate-limit signal, so the poll escalates the backoff instead of
\* resetting it.
RateLimitAnswerEscalates ==
    last_cycle.response = "rate_limit" =>
        /\ streak >= 1
        /\ current_backoff =
            (IF Base * Multiplier <= MaxBackoff THEN Base * Multiplier ELSE MaxBackoff)

\* C15 as stated: in an action engine invocation every enabled action is
\* attempted whatever happens to the others, the lookup and the ownership
\* check of the removal step included.
EveryEnabledActionAttempted ==
    \A e \in engine :
        /\ cfg.auto_skip => [cmd |-> "skip_to_next", track |-> e.track] \in commands
        /\ blocked_playlist_id # None =>
                [cmd |-> "add_to_playlist", track |-> e.track] \in commands

\* C16 as stated: every invocation of the action engine appends exactly one
\* Action row keyed by the play id of the track.
OneActionRowPerInvocation ==
    \A e \in engine :
        \/ cycle.pc = "insert_action" /\ cycle.track = e.track
        \/ Cardinality({a \in actions : a.play_id = e.play_id}) = 1

\* C17: remove_from_playlist is requested only when removal is enabled and
\* the context is a playlist that was fetched and is owned by the user;
\* otherwise no removal is requested and removed_from_playlist is recorded
\* as false.
RemovalOnlyFromOwnPlaylist ==
    [][LET allowed == /\ cfg.remove_from_playlists
                      /\ cycle.pc = "classify"
                      /\ cycle.ctx = "playlist_owned"
       IN /\ (\E c \in commands' \ commands : c.cmd = "remove_from_playlist")
                => allowed
          /\ (cycle.pc = "classify" /\ cycle'.pc = "insert_action" /\ ~allowed)
                => ~cycle'.removed_from_playlist
          /\ \A a \in actions' \ actions :
                /\ cycle.pc = "insert_action"
                /\ a.removed_from_playlist = DbBool(cycle.removed_from_playlist)
                /\ a.removed_from_playlist = DbBool(TRUE) =>
                        cfg.remove_from_playlists /\ cycle.ctx = "playlist_owned"]_vars

\* The engine ran in a playlist of somebody else with removal enabled.
ForeignPlaylistLeftAloneReached ==
    /\ cycle.pc = "insert_action"
    /\ cfg.remove_from_playlists
    /\ cycle.ctx = "playlist_other"
    /\ [cmd |-> "add_to_playlist", track |-> cycle.track] \in commands
    /\ [cmd |-> "remove_from_playlist", track |-> cycle.track] \notin commands
    /\ ~cycle.removed_from_playlist

\* What classify_artist would return for the call recorded in ret on the
\* store the aggregator starts from, had every insert succeeded.
WithPersistence ==
    ClassifyArtist([cfg |-> cfg, now |-> ret.time, overrides |-> overrides,
                    decisions |-> {}, sources |-> {}],
                   ret.artist_id, ArtistName(ret.artist_id),
                   [fault |-> NoFault, outcome |-> aggIn])

VerdictFields(d) ==
    [label |-> d.label, is_artificial |-> d.is_artificial,
     confidence |-> d.confidence, sources_agreeing |-> d.sources_agreeing,
     band_policy_applied |-> d.band_policy_applied]

\* C18: when the insert of a fresh decision or of one of its source results
\* fails, classify_artist returns normally, with the label, is_artificial,
\* confidence, sources_agreeing and band_policy_applied it would have returned
\* had persistence succeeded.
PersistenceFailureKeepsDecision ==
    aggPc = "done" =>
        /\ ~ret.raised
        /\ ret.path = "fresh"
        /\ VerdictFields(ret.decision) = VerdictFields(WithPersistence.decision)

\* A source result of an artificial verdict could not be written.
SourceResultLostReached ==
    /\ aggPc = "done"
    /\ Len(ret.calls) >= 2
    /\ decisions # {}
    /\ Cardinality(sources) < Len(ret.calls)
    /\ Cardinality(WithPersistence.sources) = Len(ret.calls)
    /\ ret.decision.is_artificial = "true"

\* C19 as stated: when the store fails during the override lookup or the
\* cache lookup, classify_artist still returns a Decision to its caller.
LookupFailureStillReturns == ret.caller # "none" => ~ret.raised

\* C20: an error raised in a poll cycle never ends the monitor loop: the loop
\* sleeps the base poll interval and, unless the monitor is stopped, runs
\* another cycle.
LoopSurvivesFailure ==
    /\ [][last_cycle'.outcome = "raised" => mon' = mon]_vars
    /\ [](last_cycle.outcome = "raised" =>
            /\ cycle.pc = "poll"
            /\ last_cycle.slept = cfg.poll_interval_seconds)
    /\ (last_cycle.outcome = "raised" /\ mon = "running")
            ~> (mon = "stopped" \/ last_cycle.response = "any")

\* A cycle failed while the monitor was running on an escalating setting.
FailedCycleWhileRunningReached ==
    /\ last_cycle.outcome = "raised"
    /\ mon = "running"
    /\ last_cycle.slept = cfg.poll_interval_seconds
    /\ cfg.poll_interval_seconds < cfg.max_backoff_seconds
    /\ stats[1].classify = 1

\* C21: stop() leaves the cycle in flight alone, which then runs to its
\* end; no poll is made once the monitor is stopped, and the loop ends.
StopIsCooperative ==
    /\ [][(mon = "running" /\ mon' = "stopped") => cycle' = cycle]_vars
    /\ [][mon = "stopped" =>
            /\ mon' = "stopped"
            /\ cycle.pc = "poll" =>
                    UNCHANGED <<cycle, storeVars, monVars, stats, engine, commands>>]_vars
    /\ (mon = "stopped") ~> (mon = "stopped" /\ cycle.pc = "poll")

\* stop() came while a cycle was in flight, and the cycle went on to write
\* its Action row.
StoppedCycleCompletedReached ==
    /\ mon = "stopped"
    /\ cycle.pc = "poll"
    /\ last_cycle.outcome = "returned"
    /\ last_cycle.response = "none"
    /\ actions # {}

\* C22: after any sequence of set_override and delete_override calls there
\* is at most one Override per performer; get_override after a set_override
\* returns the values of that call, whatever was stored before, and
\* get_override after a delete_override returns none.
OverrideUpsert ==
    \A artist_id \in Artists :
        /\ Cardinality(GetOverride(overrides, artist_id)) <= 1
        /\ \A is_artificial \in BOOLEAN, reason \in OverrideReasons :
            GetOverride(SetOverrideRows(overrides, artist_id, is_artificial, reason),
                        artist_id)
                = {[artist_id |-> artist_id,
                    is_artificial |-> IF is_artificial THEN 1 ELSE 0,
                    reason |-> reason]}
        /\ GetOverride(DeleteOverrideRows(overrides, artist_id), artist_id) = {}

\* set_override stored an Override that says artificial for a performer whose
\* fresh evaluation said human; the next set_override has a row to replace.
OverrideStoredReached ==
    /\ ret.caller = "none"
    /\ \E o \in overrides :
        /\ o.is_artificial = 1
        /\ last_fresh[o.artist_id].is_artificial = "false"
        /\ GetOverride(SetOverrideRows(overrides, o.artist_id, FALSE, o.reason),
                       o.artist_id) # GetOverride(overrides, o.artist_id)

\* C23: a classify_artist call that starts while the performer has an
\* Override calls no Source Adapter and writes nothing; a call that starts
\* with no Override resolves through the cache and, with no live cached
\* Decision, through a fresh evaluation of every enabled adapter.
OverridePreemptsSources ==
    ret.caller # "none" =>
        /\ ret.had_override => ret.calls = <<>> /\ ~ret.wrote
        /\ (~ret.had_override /\ ~ret.raised) =>
            /\ ret.had_cached => ret.path = "cache" /\ ret.calls = <<>>
            /\ ~ret.had_cached =>
                    /\ ret.path = "fresh"
                    /\ Len(ret.calls) = Cardinality(cfg.enabled)

\* With no Override in the store and the earlier Decision no longer live, a
\* later call evaluates afresh.
FreshAgainWithoutOverrideReached ==
    /\ ret.caller # "none"
    /\ ~ret.had_override /\ overrides = {}
    /\ ret.path = "fresh"
    /\ ret.prior.decision_id # NullDecision.decision_id
    /\ Len(ret.calls) >= 1

\* C24: a fresh decision's sources_agreeing is at most the number of sources
\* that answered with success, and it is the number of artificial votes when
\* is_artificial is true and the number of human votes otherwise, the
\* inconclusive decision included.
SourcesAgreeingCounts ==
    aggPc = "done" =>
        LET d == ret.decision
            succeeded == (DOMAIN aggIn) \ FailedAdapters
        IN /\ d.sources_agreeing <= Cardinality(succeeded)
           /\ d.sources_agreeing =
                (IF d.is_artificial = "true" THEN Cardinality(ArtificialVoters)
                 ELSE Cardinality(HumanVoters))

\* An inconclusive decision with more artificial votes than human votes.
InconclusiveCountsHumanVotesReached ==
    /\ aggPc = "done"
    /\ ret.decision.is_artificial = "null"
    /\ Cardinality(HumanVoters) >= 1
    /\ Cardinality(ArtificialVoters) > Cardinality(HumanVoters)
    /\ ret.decision.sources_agreeing = Cardinality(HumanVoters)

\* C25: after every poll cycle that observed a playing track, last_track_id
\* is that track's id; a cycle that observes the track last_track_id already
\* names processes nothing and leaves last_track_id and the processed set as
\* they were.
LastTrackFollowsPlayback ==
    /\ [](last_cycle.observed = "track" => last_track_id = last_cycle.seen)
    /\ [][(/\ Polling
           /\ last_cycle'.observed = "track"
           /\ last_cycle'.seen = last_track_id)
            => UNCHANGED <<last_track_id, processed_tracks, storeVars, stats,
                           engine, commands, cycle, last_decision>>]_vars

\* Track 1 was processed and is polled again right after.
SameTrackPolledAgainReached ==
    /\ last_cycle.observed = "track"
    /\ last_cycle.outcome = "returned"
    /\ last_cycle.seen = 1
    /\ last_track_id = 1
    /\ stats[1].classify = 1
    /\ ~stats[1].recurred

\* C26: a poll cycle that receives the rate-limit signal changes the backoff
\* and nothing else: last_track_id, the processed set, the current-track
\* projection, last_decision and the store stay as they are, and no adapter
\* call or provider command is made.
RateLimitedCycleFrame ==
    [][last_cycle'.observed = "rate_limited" =>
            UNCHANGED <<last_track_id, processed_tracks, current_track,
                        last_decision, storeVars, stats, engine, commands, cycle,
                        mon, blocked_playlist_id>>]_vars

\* The rate-limit signal came after a track had been processed.
RateLimitedAfterTrackReached ==
    /\ last_cycle.observed = "rate_limited"
    /\ current_backoff > cfg.poll_interval_seconds
    /\ current_track.track_id = 1
    /\ last_track_id = 1
    /\ plays # {}
    /\ last_decision # NullDecision

\* C27: after every poll cycle that observed a playing track the
\* current-track projection holds that track and its primary performer, also
\* when the dedup check or the session-once guard then drops the track; a
\* cycle that ends earlier leaves the projection unchanged.
ProjectionFollowsPlayback ==
    /\ [](last_cycle.observed = "track" =>
            /\ current_track.track_id = last_cycle.seen
            /\ current_track.artist_id = ArtistOf(last_cycle.seen)
            /\ current_track.artist_name =
                (IF HasArtists(last_cycle.seen)
                 THEN ArtistName(ArtistOf(last_cycle.seen)) ELSE "Unknown"))
    /\ [][last_cycle'.observed \in {"no_track", "rate_limited"} =>
            current_track' = current_track]_vars

\* Track 1 came back after another track and was dropped by the
\* session-once guard.
DroppedTrackProjectedReached ==
    /\ last_cycle.observed = "track"
    /\ last_cycle.outcome = "returned"
    /\ last_cycle.seen = 1
    /\ stats[1].recurred
    /\ stats[1].detected = 1
    /\ current_track.track_id = 1

\* C28 as stated: with a blocked-playlist name configured every action
\* engine invocation attempts to append its track to the blocked playlist.
BlockedPlaylistAlwaysAppended ==
    cfg.blocked_playlist_name # "" =>
        \A e \in engine :
            [cmd |-> "add_to_playlist", track |-> e.track] \in commands

\* C29 as stated: in one fresh evaluation every adapter call is started
\* before the aggregator waits for any of them to finish.
AdaptersStartedBeforeAnyFinishes ==
    (aggPc = "done" /\ ret.path = "fresh") =>
        LET events == AdapterEvents(ret.calls)
        IN \A i, j \in 1..Len(events) :
            (events[i].event = "started" /\ events[j].event = "finished") => i < j

\* C30: the monitor never has two poll cycles in flight: a poll is made only
\* by a running monitor whose previous cycle, with its classification and
\* action execution, has ended and been slept after.
OneCycleAtATime ==
    [][last_cycle'.observed # "unknown" =>
            /\ mon = "running"
            /\ cycle.pc = "poll"
            /\ last_cycle.outcome # "in_flight"
            /\ cycle'.pc \in {"poll", "log_play"}]_vars

\* A poll made after a cycle that went through classification and the
\* action engine.
PolledAfterFullCycleReached ==
    /\ last_cycle.observed = "no_track"
    /\ cycle.pc = "poll"
    /\ stats[1].take_action = 1
    /\ actions # {}

\* C31: a call for a performer without an Override is served from the cache
\* exactly when a persisted Decision of the performer has cached_until later
\* than the current time, and it is served such a Decision; after
\* invalidate_cache no Decision of the performer is live, so the next call
\* evaluates afresh with every enabled source.
CacheValidity ==
    [][/\ (ret'.caller # "none" /\ ~ret'.raised /\ ~ret'.had_override) =>
            LET live == {d \in decisions : /\ d.artist_id = ret'.artist_id
                                           /\ d.cached_until > now}
            IN /\ ret'.path = "cache" <=> live # {}
               /\ ret'.path = "cache" =>
                    \E d \in live : d.id = ret'.decision.decision_id
               /\ ret'.path = "fresh" =>
                    Len(ret'.calls) = Cardinality(cfg.enabled)
       /\ (ret'.caller = "none" /\ decisions' # decisions) =>
            \A d \in decisions' :
                (\E e \in decisions : e.id = d.id /\ e # d) =>
                    \A f \in decisions' :
                        f.artist_id = d.artist_id => f.cached_until <= now']_vars

\* A Decision that would still have been live was invalidated, and the next
\* call evaluated afresh.
FreshAfterInvalidationReached ==
    /\ Returned /\ ~ret.had_override
    /\ ret.path = "fresh"
    /\ ret.prior.cached_until > ret.time
    /\ \E d \in decisions : d.id = ret.prior.decision_id /\ d.cached_until = Past
    /\ Len(ret.calls) = Cardinality(cfg.enabled)

\* A step that is a fresh evaluation for the performer during which no store
\* operation fails.
FaultFreeFresh(artist_id) ==
    \E env \in ClassifyEnvs(artist_id) :
        LET r == ClassifyArtist(Store, artist_id, ArtistName(artist_id), env)
        IN /\ env.fault = NoFault
           /\ r.path = "fresh"
           /\ ret' = CallRecord("api", artist_id, r)
           /\ decisions' = r.decisions
           /\ sources' = r.sources
           /\ now' = r.now

\* C32: a fresh evaluation with a working store appends exactly one Decision,
\* with cached_until = evaluation time + cache_duration_seconds, and exactly
\* one SourceResult per enabled source, failed sources included, each linked
\* to the id of that Decision.
FreshEvaluationPersisted ==
    [][\A artist_id \in Artists :
        FaultFreeFresh(artist_id) =>
            LET newDecisions == decisions' \ decisions
                newSources == sources' \ sources
            IN /\ decisions \subseteq decisions'
               /\ sources \subseteq sources'
               /\ Cardinality(newDecisions) = 1
               /\ \A d \in newDecisions :
                    /\ d.id = ret'.decision.decision_id
                    /\ d.artist_id = artist_id
                    /\ d.timestamp = now'
                    /\ d.cached_until = now' + cfg.cache_duration
                    /\ \A r \in newSources : r.decision_id = d.id
               /\ \A r \in newSources : r.source_name \in cfg.enabled
               /\ \A s \in cfg.enabled :
                    Cardinality({r \in newSources : r.source_name = s}) = 1]_vars

\* A fresh evaluation in which a source failed was appended, with a row for
\* every enabled source, to a store that already held a Decision.
FailedSourcePersistedReached ==
    /\ Returned /\ ret.path = "fresh"
    /\ Cardinality(cfg.enabled) >= 2
    /\ \E s \in cfg.enabled : ~ret.decision.sources[s].success
    /\ \E d \in decisions : d.id = ret.decision.decision_id
    /\ Cardinality(decisions) >= 2
    /\ \A s \in cfg.enabled :
        \E r \in sources : /\ r.decision_id = ret.decision.decision_id
                           /\ r.source_name = s

\* C33 as stated: the Decision history is append-only: no operation, cache
\* invalidation included, deletes a persisted Decision or changes any field of
\* it after it was written.
DecisionsAppendOnly == [][decisions \subseteq decisions']_vars

\* C33 amended: no operation deletes a persisted Decision or changes a field
\* of it other than cached_until; cached_until is only ever overwritten by
\* cache invalidation, with the fixed past instant.
DecisionsKeptButExpiry ==
    [][/\ \A d \in decisions :
            \E e \in decisions' :
                /\ e.id = d.id
                /\ [e EXCEPT !.cached_until = d.cached_until] = d
                /\ e # d => e.cached_until = Past /\ ret'.caller = "none"
       /\ Cardinality({e.id : e \in decisions'}) = Cardinality(decisions')
       /\ Cardinality(decisions') >= Cardinality(decisions)]_vars

\* A persisted Decision was force-expired before its cached_until: the row is
\* still there, with every field but cached_until as it was written.
ForceExpiredDecisionKeptReached ==
    \E a \in Artists :
        /\ last_fresh[a].cached_until > now
        /\ \E d \in decisions :
            /\ d.cached_until = Past
            /\ [d EXCEPT !.cached_until = last_fresh[a].cached_until]
                    = DecisionRow(last_fresh[a], d.timestamp)

\* C34 as stated: when classify_artist calls for the same performer run
\* interleaved at their await points, at most one of them evaluates afresh:
\* at any time at most one non-expired Decision exists per performer.
AtMostOneLiveDecision ==
    \A a \in Artists :
        Cardinality({d \in decisions : d.artist_id = a /\ d.cached_until > now}) <= 1

\* C35 as stated: the monitor never invokes _take_action for a track whose
\* primary performer has, at that moment, an Override with is_artificial =
\* false, also when the Override was written while the classification of the
\* track was in flight.
NoActionAgainstHumanOverride ==
    [][\A e \in engine' \ engine :
        \A o \in GetOverride(overrides, ArtistOf(e.track)) :
            FromDbBool(o.is_artificial)]_vars

\* C36: an inconclusive fresh Decision is written and cached like any other:
\* with a working store its row, is_artificial NULL, is the performer's live
\* cache entry, and while that row is neither expired nor invalidated every
\* later call for the performer (no Override in the way) returns that
\* Decision, still inconclusive, without calling an adapter or writing.
InconclusiveDecisionCached ==
    /\ [][\A a \in Artists :
            (FaultFreeFresh(a) /\ ret'.decision.is_artificial = "null") =>
                \E d \in decisions' :
                    /\ d.id = ret'.decision.decision_id
                    /\ d.is_artificial = DbNull
                    /\ GetCachedDecision(decisions', a, now') = {d}]_vars
    /\ []((/\ Returned /\ ~ret.had_override
           /\ ret.prior # NullDecision
           /\ ret.prior.is_artificial = "null"
           /\ ret.prior_stored
           /\ ret.time < ret.prior.cached_until) =>
                /\ ret.path = "cache"
                /\ ret.calls = <<>>
                /\ ~ret.wrote
                /\ ret.decision.decision_id = ret.prior.decision_id
                /\ ret.decision.is_artificial = "null"
                /\ ret.decision.label = ret.prior.label
                /\ ret.decision.confidence = ret.prior.confidence)

\* Every source failed in the latest fresh evaluation, and a later call got
\* its inconclusive Decision from the cache.
InconclusiveServedFromCacheReached ==
    /\ Returned /\ ~ret.had_override
    /\ ret.path = "cache"
    /\ ret.calls = <<>>
    /\ ret.decision.is_artificial = "null"
    /\ ret.prior.decision_id = ret.decision.decision_id
    /\ DOMAIN ret.prior.sources = cfg.enabled
    /\ \A s \in cfg.enabled : ~ret.prior.sources[s].success

\* C37: a cycle that finds playback paused on a track records nothing: the
\* last-seen track, the processed set and the processing position stay as
\* they were; and a cycle that finds a track playing that is not in the
\* processed set (so the first such cycle after the paused ones) marks it
\* last-seen and processed and hands it to _process_track.
PausedTrackDeferred ==
    [][/\ (last_cycle'.observed = "no_track" /\ last_cycle'.seen # NoTrack) =>
            /\ last_track_id' = last_track_id
            /\ processed_tracks' = processed_tracks
            /\ stats' = stats
            /\ cycle' = cycle
       /\ (last_cycle'.observed = "track" /\ last_cycle'.seen \notin processed_tracks) =>
            LET track == last_cycle'.seen
            IN /\ last_track_id' = track
               /\ processed_tracks' = processed_tracks \cup {track}
               /\ stats'[track].detected = stats[track].detected + 1
               /\ stats[track].detected = 0
               /\ HasArtists(track) => cycle'.pc = "log_play" /\ cycle'.track = track]_vars

\* A track that the cycle before found paused, and that was never processed,
\* is found playing and goes into processing.
PausedThenProcessedReached ==
    /\ last_cycle.paused_before
    /\ last_cycle.observed = "track"
    /\ cycle.pc = "log_play"
    /\ cycle.track = last_cycle.seen
    /\ stats[cycle.track].detected = 1
    /\ stats[cycle.track].log_play = 0

\* C38: in every reachable state of the monitor last_track_id is unset or a
\* member of processed_tracks, and no step removes a track id from
\* processed_tracks.
LastTrackWasProcessed ==
    /\ [](last_track_id = NoTrack \/ last_track_id \in processed_tracks)
    /\ [][processed_tracks \subseteq processed_tracks']_vars

\* Two tracks were processed, and one processed earlier came back and is
\* last-seen again.
EarlierTrackLastSeenReached ==
    /\ Cardinality(processed_tracks) >= 2
    /\ last_track_id \in processed_tracks
    /\ stats[last_track_id].recurred
    /\ last_cycle.observed = "track"
    /\ last_cycle.seen = last_track_id

\* C39 as stated: every Action row refers to a Play row that exists in the
\* store, for the same track, also when logging the play failed part-way.
ActionRefersToPlay ==
    \A a \in actions :
        \E p \in plays : p.id = a.play_id /\ p.track_id = a.play_id[3]

\* C40: with min_source_agreement >= 1 and no source enabled, a fresh
\* evaluation takes no branch that divides by the number of sources, raises
\* nothing and returns the inconclusive Decision: label "unknown",
\* is_artificial null, confidence 0.0, sources_agreeing 0.
NoSourcesInconclusive ==
    (aggPc = "done" /\ cfg.enabled = {} /\ cfg.min_source_agreement >= 1) =>
        /\ ~ret.raised
        /\ ret.path = "fresh"
        /\ ret.calls = <<>>
        /\ ~AggregateRaises(cfg, ret.calls, ret.decision.sources)
        /\ ret.decision.label = "unknown"
        /\ ret.decision.is_artificial = "null"
        /\ ret.decision.confidence = 0
        /\ ret.decision.sources_agreeing = 0

\* An evaluation with no source enabled returned and its Decision was stored.
NoSourcesEvaluatedReached ==
    /\ aggPc = "done"
    /\ cfg.enabled = {}
    /\ ret.path = "fresh"
    /\ ret.decision.label = "unknown"
    /\ \E d \in decisions : d.id = ret.decision.decision_id /\ d.is_artificial = DbNull

====
